---- MODULE Spec2Model ----
(***************************************************************************)
(* Model of src/py/ingest_py.py: the per-file ingestion pass that parses   *)
(* one Python file, walks its syntax tree once and writes symbol, edge,    *)
(* call and name_index records to standard output.                         *)
(*                                                                         *)
(* Strings that the program only copies are TLA+ strings.  Path strings    *)
(* are sequences of pieces (a separator or a separator-free piece), so     *)
(* that norm_path and relpath act on them as the code does.  SHA-1 is      *)
(* taken to be injective: a digest is represented by the byte string that  *)
(* was fed to the hash, so two ids are equal exactly when make_id fed the  *)
(* same bytes.  The visitor's recursion is a stack of pending visit()       *)
(* calls, each with the depth of the interpreter's call stack, so that a   *)
(* tree nested deeper than the recursion limit ends the traversal the way  *)
(* the interpreter does.                                                   *)
(***************************************************************************)
EXTENDS Integers, Sequences, FiniteSets, TLC

\* Bounds of the model.
MaxFiles == 1      \* files below the ingested root directory (single-run specification)
MaxRunFiles == 2   \* files below the ingested root directory (multi-run specification)
MaxRuns == 2       \* process invocations in the multi-run specification

VARIABLES
  run,         \* number of the current process invocation
  entry,       \* "main": started through main/ingest_dir; "import": a caller imports the module and calls ingest_file
  sep,         \* os.sep of the platform of this run
  root,        \* the root directory argument, as path components
  disk,        \* the files below root
  walked,      \* files for which ingest_file has returned in this run
  pc,          \* "walk": between files, "visit": inside Visitor().visit(tree), "exit": run finished,
               \* "crashed": the process died of an uncaught exception
  cur,         \* the file being ingested (while pc = "visit")
  file_rel,    \* ingest_file local (line 46)
  mod_id,      \* ingest_file local (line 47)
  name_index,  \* ingest_file local (line 55)
  stack,       \* pending visit() calls, innermost first: the node and the depth of the calling frame
  stdout,      \* records written to sys.stdout by this run
  start,       \* Len(stdout) when the current pass began
  log          \* history: the completed ingest_file calls of all runs

vars == <<run, entry, sep, root, disk, walked, pc, cur, file_rel, mod_id,
          name_index, stack, stdout, start, log>>

----------------------------------------------------------------------------
\* Python values

None == "<None>"

EmptyDict == [k \in {} |-> k]

Digit == <<"0", "1", "2", "3", "4", "5", "6", "7", "8", "9">>

RECURSIVE str_int(_)
str_int(n) == IF n < 10 THEN Digit[n + 1] ELSE str_int(n \div 10) \o Digit[(n % 10) + 1]

\* A part handed to make_id: a str, an int or None.
S(s) == [tag |-> "str", s |-> s, n |-> 0]
I(n) == [tag |-> "int", s |-> "", n |-> n]
NoneVal == [tag |-> "none", s |-> "", n |-> 0]

\* str(p if p is not None else '')
py_str(p) == CASE p.tag = "none" -> ""
               [] p.tag = "int" -> str_int(p.n)
               [] OTHER -> p.s

RECURSIVE Concat(_)
Concat(ss) == IF ss = <<>> THEN "" ELSE Head(ss) \o Concat(Tail(ss))

\* hashlib.sha1 over the updates, hexdigest()[:16]; represented by its preimage.
sha1_hexdigest16(bytes) == bytes

make_id(parts) == sha1_hexdigest16(Concat([i \in DOMAIN parts |-> py_str(parts[i])]))

----------------------------------------------------------------------------
\* Paths

norm_path(p) == [i \in DOMAIN p |-> IF p[i] = "\\" THEN "/" ELSE p[i]]

RECURSIVE Join(_, _)
Join(comps, s) ==
  IF Len(comps) = 0 THEN <<>>
  ELSE IF Len(comps) = 1 THEN <<comps[1]>>
  ELSE <<comps[1], s>> \o Join(Tail(comps), s)

\* os.path.join(a, b) for a relative b
os_path_join(a, b) == a \o <<sep>> \o b

\* os.path.relpath(path, start) for a path below start
os_path_relpath(path, startdir) == SubSeq(path, Len(startdir) + 2, Len(path))

\* the dirpath os.walk yields for the directory of f, and the path ingest_dir builds
dirpath_of(f) == IF f.dir = <<>> THEN Join(root, sep)
                 ELSE os_path_join(Join(root, sep), Join(f.dir, sep))
path_of(f) == os_path_join(dirpath_of(f), f.fn)

\* ingest_dir: pruned directories are never entered, only *.py files are ingested
Walkable(f) ==
  /\ \A i \in DOMAIN f.dir : f.dir[i] \notin {"node_modules", ".git"}
  /\ f.fn[Len(f.fn)] = ".py"

----------------------------------------------------------------------------
\* Syntax trees (ast nodes).  fields lists the node's AST-valued fields in
\* _fields order; subtrees holding no def, class, assignment, import or call
\* are left out, generic_visit emits nothing for them.

Node(type, attrs, pos, fields) == [type |-> type, attrs |-> attrs, pos |-> pos, fields |-> fields]
F(name, nodes) == [name |-> name, nodes |-> nodes]
At(l, c, el, ec) == [lineno |-> l, col_offset |-> c, end_lineno |-> el, end_col_offset |-> ec]
NoPos == EmptyDict
NoAttrs == EmptyDict

\* e2e:
\*    1| def f():
\*    2|     pass
\*    3| class C:
\*    4|     def m(self):
\*    5|         pass
Tree_e2e ==
  Node("Module", NoAttrs, NoPos, <<
    F("body", <<
      Node("FunctionDef", [name |-> "f"], At(1, 0, 2, 8), <<
        F("body", << >>) >>),
      Node("ClassDef", [name |-> "C"], At(3, 0, 5, 12), <<
        F("body", <<
          Node("FunctionDef", [name |-> "m"], At(4, 4, 5, 12), <<
            F("body", << >>) >>) >>) >>) >>) >>)

\* beta:
\*    1| from .utils import greet
\*    3| def main(name: str) -> None:
\*    4|     print(log(greet(name)))
\*    6| def log(msg: str) -> str:
\*    7|     return f"[py] {msg}"
\*    9| class Person:
\*   10|     def __init__(self, name: str):
\*   11|         self.name = name
\*   12|     def speak(self):
\*   13|         return greet(self.name)
Tree_beta ==
  Node("Module", NoAttrs, NoPos, <<
    F("body", <<
      Node("ImportFrom", [module |-> "utils", level |-> 1], At(1, 0, 1, 24), <<
        F("names", <<
          Node("alias", [name |-> "greet"], At(1, 19, 1, 24), << >>) >>) >>),
      Node("FunctionDef", [name |-> "main"], At(3, 0, 4, 27), <<
        F("body", <<
          Node("Expr", NoAttrs, At(4, 4, 4, 27), <<
            F("value", <<
              Node("Call", NoAttrs, At(4, 4, 4, 27), <<
                F("func", <<
                  Node("Name", [id |-> "print"], At(4, 4, 4, 9), << >>) >>),
                F("args", <<
                  Node("Call", NoAttrs, At(4, 10, 4, 26), <<
                    F("func", <<
                      Node("Name", [id |-> "log"], At(4, 10, 4, 13), << >>) >>),
                    F("args", <<
                      Node("Call", NoAttrs, At(4, 14, 4, 25), <<
                        F("func", <<
                          Node("Name", [id |-> "greet"], At(4, 14, 4, 19), << >>) >>) >>) >>) >>) >>) >>) >>) >>) >>) >>),
      Node("FunctionDef", [name |-> "log"], At(6, 0, 7, 24), <<
        F("body", << >>) >>),
      Node("ClassDef", [name |-> "Person"], At(9, 0, 13, 31), <<
        F("body", <<
          Node("FunctionDef", [name |-> "__init__"], At(10, 4, 11, 24), <<
            F("body", <<
              Node("Assign", NoAttrs, At(11, 8, 11, 24), <<
                F("targets", <<
                  Node("Attribute", [attr |-> "name"], At(11, 8, 11, 17), << >>) >>) >>) >>) >>),
          Node("FunctionDef", [name |-> "speak"], At(12, 4, 13, 31), <<
            F("body", <<
              Node("Return", NoAttrs, At(13, 8, 13, 31), <<
                F("value", <<
                  Node("Call", NoAttrs, At(13, 15, 13, 31), <<
                    F("func", <<
                      Node("Name", [id |-> "greet"], At(13, 15, 13, 20), << >>) >>) >>) >>) >>) >>) >>) >>) >>) >>) >>)

\* async_top:
\*    1| async def g():
\*    2|     pass
\*    3| def h():
\*    4|     pass
Tree_async_top ==
  Node("Module", NoAttrs, NoPos, <<
    F("body", <<
      Node("AsyncFunctionDef", [name |-> "g"], At(1, 0, 2, 8), <<
        F("body", << >>) >>),
      Node("FunctionDef", [name |-> "h"], At(3, 0, 4, 8), <<
        F("body", << >>) >>) >>) >>)

\* class_shadow:
\*    1| class K:
\*    2|     x = 1
\*    3|     def x(self):
\*    4|         pass
Tree_class_shadow ==
  Node("Module", NoAttrs, NoPos, <<
    F("body", <<
      Node("ClassDef", [name |-> "K"], At(1, 0, 4, 12), <<
        F("body", <<
          Node("Assign", NoAttrs, At(2, 4, 2, 9), <<
            F("targets", <<
              Node("Name", [id |-> "x"], At(2, 4, 2, 5), << >>) >>) >>),
          Node("FunctionDef", [name |-> "x"], At(3, 4, 4, 12), <<
            F("body", << >>) >>) >>) >>) >>) >>)

\* nested_in_method:
\*    1| class K:
\*    2|     def a(self):
\*    3|         def b():
\*    4|             pass
\*    5|     def b(self):
\*    6|         pass
Tree_nested_in_method ==
  Node("Module", NoAttrs, NoPos, <<
    F("body", <<
      Node("ClassDef", [name |-> "K"], At(1, 0, 6, 12), <<
        F("body", <<
          Node("FunctionDef", [name |-> "a"], At(2, 4, 4, 16), <<
            F("body", <<
              Node("FunctionDef", [name |-> "b"], At(3, 8, 4, 16), <<
                F("body", << >>) >>) >>) >>),
          Node("FunctionDef", [name |-> "b"], At(5, 4, 6, 12), <<
            F("body", << >>) >>) >>) >>) >>) >>)

\* collide:
\*    1| y = 0;    x = 1
\*   11| x = 2
Tree_collide ==
  Node("Module", NoAttrs, NoPos, <<
    F("body", <<
      Node("Assign", NoAttrs, At(1, 0, 1, 5), <<
        F("targets", <<
          Node("Name", [id |-> "y"], At(1, 0, 1, 1), << >>) >>) >>),
      Node("Assign", NoAttrs, At(1, 10, 1, 15), <<
        F("targets", <<
          Node("Name", [id |-> "x"], At(1, 10, 1, 11), << >>) >>) >>),
      Node("Assign", NoAttrs, At(11, 0, 11, 5), <<
        F("targets", <<
          Node("Name", [id |-> "x"], At(11, 0, 11, 1), << >>) >>) >>) >>) >>)

\* imports:
\*    1| import os, a.py
\*    2| from . import z
\*    3| from ..pkg.mod import q
\*    4| from json import loads
Tree_imports ==
  Node("Module", NoAttrs, NoPos, <<
    F("body", <<
      Node("Import", NoAttrs, At(1, 0, 1, 15), <<
        F("names", <<
          Node("alias", [name |-> "os"], At(1, 7, 1, 9), << >>),
          Node("alias", [name |-> "a.py"], At(1, 11, 1, 15), << >>) >>) >>),
      Node("ImportFrom", [module |-> None, level |-> 1], At(2, 0, 2, 15), <<
        F("names", <<
          Node("alias", [name |-> "z"], At(2, 14, 2, 15), << >>) >>) >>),
      Node("ImportFrom", [module |-> "pkg.mod", level |-> 2], At(3, 0, 3, 23), <<
        F("names", <<
          Node("alias", [name |-> "q"], At(3, 22, 3, 23), << >>) >>) >>),
      Node("ImportFrom", [module |-> "json", level |-> 0], At(4, 0, 4, 22), <<
        F("names", <<
          Node("alias", [name |-> "loads"], At(4, 17, 4, 22), << >>) >>) >>) >>) >>)

\* assigns:
\*    1| a, b = 1, 2
\*    2| obj.attr = 3
\*    3| v = w = foo(1)
\*    4| d[0] = bar.baz()
\*    5| (lambda: 0)()
\*    6| if v:
\*    7|     def inner():
\*    8|         pass
Tree_assigns ==
  Node("Module", NoAttrs, NoPos, <<
    F("body", <<
      Node("Assign", NoAttrs, At(1, 0, 1, 11), <<
        F("targets", <<
          Node("Tuple", NoAttrs, At(1, 0, 1, 4), << >>) >>) >>),
      Node("Assign", NoAttrs, At(2, 0, 2, 12), <<
        F("targets", <<
          Node("Attribute", [attr |-> "attr"], At(2, 0, 2, 8), << >>) >>) >>),
      Node("Assign", NoAttrs, At(3, 0, 3, 14), <<
        F("targets", <<
          Node("Name", [id |-> "v"], At(3, 0, 3, 1), << >>),
          Node("Name", [id |-> "w"], At(3, 4, 3, 5), << >>) >>),
        F("value", <<
          Node("Call", NoAttrs, At(3, 8, 3, 14), <<
            F("func", <<
              Node("Name", [id |-> "foo"], At(3, 8, 3, 11), << >>) >>) >>) >>) >>),
      Node("Assign", NoAttrs, At(4, 0, 4, 16), <<
        F("targets", <<
          Node("Subscript", NoAttrs, At(4, 0, 4, 4), << >>) >>),
        F("value", <<
          Node("Call", NoAttrs, At(4, 7, 4, 16), <<
            F("func", <<
              Node("Attribute", [attr |-> "baz"], At(4, 7, 4, 14), << >>) >>) >>) >>) >>),
      Node("Expr", NoAttrs, At(5, 0, 5, 13), <<
        F("value", <<
          Node("Call", NoAttrs, At(5, 0, 5, 13), <<
            F("func", <<
              Node("Lambda", NoAttrs, At(5, 1, 5, 10), <<
                F("body", << >>) >>) >>) >>) >>) >>),
      Node("If", NoAttrs, At(6, 0, 8, 12), <<
        F("body", <<
          Node("FunctionDef", [name |-> "inner"], At(7, 4, 8, 12), <<
            F("body", << >>) >>) >>) >>) >>) >>)

\* empty:
Tree_empty ==
  Node("Module", NoAttrs, NoPos, <<
    F("body", << >>) >>)

\* deep: a sum of 1200 calls; the parser nests 1199 BinOp nodes along .left
\*    1| x = f()+f()+f()+ ... +f()
Tree_deep ==
  Node("Module", NoAttrs, NoPos, <<
    F("body", <<
      Node("Assign", NoAttrs, At(1, 0, 1, 4803), <<
        F("targets", <<
          Node("Name", [id |-> "x"], At(1, 0, 1, 1), << >>) >>),
        F("value", <<
          Node("BinOp", [nest |-> 1199], At(1, 4, 1, 4803), <<
            F("left", <<
              Node("Call", NoAttrs, At(1, 4, 1, 7), <<
                F("func", <<
                  Node("Name", [id |-> "f"], At(1, 4, 1, 5), << >>) >>) >>) >>),
            F("right", <<
              Node("Call", NoAttrs, At(1, 8, 1, 11), <<
                F("func", <<
                  Node("Name", [id |-> "f"], At(1, 8, 1, 9), << >>) >>) >>) >>) >>) >>) >>) >>) >>)

\* File contents on disk.  A content either parses to a tree or is rejected.
Sources == {"e2e", "beta", "async_top", "class_shadow", "nested_in_method",
            "collide", "imports", "assigns", "empty", "deep", "bad"}

\* ast.parse raises SyntaxError
RaisesSyntaxError(src) == src = "bad"

\* ast.parse(src, filename=path)
ast_parse(src) ==
  CASE src = "e2e" -> Tree_e2e
    [] src = "beta" -> Tree_beta
    [] src = "async_top" -> Tree_async_top
    [] src = "class_shadow" -> Tree_class_shadow
    [] src = "nested_in_method" -> Tree_nested_in_method
    [] src = "collide" -> Tree_collide
    [] src = "imports" -> Tree_imports
    [] src = "assigns" -> Tree_assigns
    [] src = "deep" -> Tree_deep
    [] OTHER -> Tree_empty

File(dir, fn, readable, src) == [dir |-> dir, fn |-> fn, readable |-> readable, src |-> src]

A_py == <<"a", ".py">>
B_py == <<"b", ".py">>

\* The files a directory may hold in the single-run specification.
Corpus ==
  { File(<<>>, <<"a", ".src">>, TRUE, "e2e"),
    File(<<>>, A_py, TRUE, "e2e"),
    File(<<>>, A_py, TRUE, "imports"),
    File(<<>>, A_py, TRUE, "async_top"),
    File(<<>>, A_py, TRUE, "class_shadow"),
    File(<<>>, A_py, TRUE, "nested_in_method"),
    File(<<>>, A_py, TRUE, "collide"),
    File(<<>>, A_py, TRUE, "empty"),
    File(<<>>, A_py, TRUE, "deep"),
    File(<<>>, A_py, TRUE, "bad"),
    File(<<>>, A_py, FALSE, "e2e"),
    File(<<"pkg">>, B_py, TRUE, "beta"),
    File(<<"pkg">>, B_py, TRUE, "imports"),
    File(<<"pkg">>, B_py, TRUE, "assigns"),
    File(<<"pkg">>, B_py, TRUE, "bad"),
    File(<<"node_modules">>, B_py, TRUE, "e2e") }

\* The files a directory may hold in the multi-run specification.
RunCorpus ==
  { File(<<>>, A_py, TRUE, "imports"),
    File(<<"pkg">>, B_py, TRUE, "beta"),
    File(<<"pkg">>, B_py, TRUE, "imports") }

Roots == { <<"repo">>, <<"home", "proj">> }
Seps == { "/", "\\" }

\* platform and root argument of a run
Platforms == [sep : Seps, root : Roots]
RunPlatforms == { [sep |-> "/", root |-> <<"repo">>], [sep |-> "\\", root |-> <<"home", "proj">>] }

\* a directory tree: at most n files, no two at the same path
Disks(corpus, n) ==
  { d \in SUBSET corpus :
      /\ Cardinality(d) <= n
      /\ \A f, g \in d : (f.dir = g.dir /\ f.fn = g.fn) => f = g }

----------------------------------------------------------------------------
\* ast helpers

HasField(node, name) == \E i \in DOMAIN node.fields : node.fields[i].name = name

Field(node, name) ==
  IF HasField(node, name)
  THEN (CHOOSE fd \in {node.fields[i] : i \in DOMAIN node.fields} : fd.name = name).nodes
  ELSE <<>>

RECURSIVE FlattenFields(_)
FlattenFields(fs) == IF fs = <<>> THEN <<>> ELSE Head(fs).nodes \o FlattenFields(Tail(fs))

\* ast.iter_child_nodes(node).  A node with attribute nest = n > 1 stands for n
\* nodes of its type nested along its first field, each with the same further
\* fields: its first child is the chain of the n - 1 inner nodes.
iter_child_nodes(node) ==
  IF "nest" \in DOMAIN node.attrs /\ node.attrs.nest > 1
  THEN <<[node EXCEPT !.attrs.nest = @ - 1]>> \o FlattenFields(Tail(node.fields))
  ELSE FlattenFields(node.fields)

getattr(node, name, default) == IF name \in DOMAIN node.pos THEN node.pos[name] ELSE default

range_of(node) ==
  LET sl == getattr(node, "lineno", 1)
      sc == getattr(node, "col_offset", 0) + 1
      el == getattr(node, "end_lineno", sl)
      ec == getattr(node, "end_col_offset", sc)
  IN [startLine |-> sl, startCol |-> sc, endLine |-> el, endCol |-> ec]

\* node types for which Visitor defines a visit_ method
Handled == {"FunctionDef", "ClassDef", "Assign", "Import", "ImportFrom", "Call"}

----------------------------------------------------------------------------
\* Records

OneOne == [startLine |-> 1, startCol |-> 1, endLine |-> 1, endCol |-> 1]

symbol_record(sym) == [type |-> "symbol", symbol |-> sym]
edge_record(src, type, dst) == [type |-> "edge", edge |-> [src |-> src, type |-> type, dst |-> dst]]
call_record(name) == [type |-> "call", calleeName |-> name, file |-> file_rel, modId |-> mod_id]
name_index_record == [type |-> "name_index", file |-> file_rel, index |-> name_index]

\* lines 47-52
module_id(rel) == make_id(<<S("module"), S("python"), S(rel), I(1), I(1)>>)
mod_sym(rel) == [id |-> module_id(rel), kind |-> "module", name |-> rel, file |-> rel,
                 range |-> OneOne, language |-> "python"]

\* lines 60-64
function_sym(node) ==
  [id |-> make_id(<<S("function"), S(node.attrs.name), S(file_rel),
                    I(node.pos.lineno), I(node.pos.col_offset + 1)>>),
   kind |-> "function", name |-> node.attrs.name, file |-> file_rel,
   range |-> range_of(node), language |-> "python"]

\* lines 72-76
class_sym(node) ==
  [id |-> make_id(<<S("class"), S(node.attrs.name), S(file_rel),
                    I(node.pos.lineno), I(node.pos.col_offset + 1)>>),
   kind |-> "class", name |-> node.attrs.name, file |-> file_rel,
   range |-> range_of(node), language |-> "python"]

\* lines 82-87
method_sym(b, klass) ==
  [id |-> make_id(<<S("method"), S(b.attrs.name), S(file_rel),
                    I(b.pos.lineno), I(b.pos.col_offset + 1)>>),
   kind |-> "method", name |-> b.attrs.name, file |-> file_rel,
   range |-> range_of(b), language |-> "python", parentId |-> klass.id]

\* lines 96-101
variable_sym(v) ==
  [id |-> make_id(<<S("variable"), S(v.attrs.id), S(file_rel),
                    I(v.pos.lineno), I(v.pos.col_offset + 1)>>),
   kind |-> "variable", name |-> v.attrs.id, file |-> file_rel,
   range |-> range_of(v), language |-> "python"]

\* a pseudo-module whose id is keyed on the importing file
pseudo_module_per_file(spec) ==
  [id |-> make_id(<<S("module"), S(spec), S(file_rel), I(1), I(1)>>),
   kind |-> "module", name |-> spec, file |-> spec,
   range |-> OneOne, language |-> "python"]

\* lines 111-115 and 120-124
pseudo_module(spec) ==
  [id |-> make_id(<<S("module"), S(spec), S(spec), I(1), I(1)>>),
   kind |-> "module", name |-> spec, file |-> spec,
   range |-> OneOne, language |-> "python"]

\* name_index.setdefault(name, []).append(sym)
setdefault_append(index, name, sym) ==
  IF name \in DOMAIN index
  THEN [index EXCEPT ![name] = Append(@, sym)]
  ELSE index @@ (name :> <<sym>>)

\* '.' * n
RECURSIVE dots(_)
dots(n) == IF n <= 0 THEN "" ELSE "." \o dots(n - 1)

\* line 119
import_from_spec(node) ==
  (IF node.attrs.module = None THEN "" ELSE node.attrs.module) \o dots(node.attrs.level)

----------------------------------------------------------------------------
\* The interpreter's call stack.  A call that would run at a depth of
\* RecursionLimit or more raises RecursionError.

RecursionLimit == 1000

Fits(depth) == depth < RecursionLimit

\* depth of the ingest_file frame: <module>, main, ingest_dir, ingest_file when
\* run as a script; the importing caller's frame and ingest_file otherwise
ingest_file_depth == IF entry = "main" THEN 4 ELSE 2

\* frames below a visitor method while it emits: emit, json.dumps,
\* JSONEncoder.encode, JSONEncoder.iterencode
EmitFrames == 4

\* frames of generic_visit: generic_visit itself and the ast.iter_fields generator
GenericFrames == 2

Call(node, depth) == [node |-> node, depth |-> depth]

\* the visit() calls generic_visit makes from a frame at `depth`
Calls(nodes, depth) == [i \in DOMAIN nodes |-> Call(nodes[i], depth)]

----------------------------------------------------------------------------
\* The current pass

pass == SubSeq(stdout, start + 1, Len(stdout))

Entry(f, status, out) ==
  [run |-> run, root |-> root, sep |-> sep, prior |-> Cardinality(walked),
   file |-> f, status |-> status, out |-> out]

Init0(platforms, disks, entries) ==
  /\ run = 1
  /\ entry \in entries
  /\ \E p \in platforms : sep = p.sep /\ root = p.root
  /\ disk \in disks
  /\ walked = {}
  /\ pc = "walk"
  /\ cur = File(<<>>, <<>>, FALSE, "")
  /\ file_rel = ""
  /\ mod_id = ""
  /\ name_index = EmptyDict
  /\ stack = <<>>
  /\ stdout = <<>>
  /\ start = 0
  /\ log = {}

Init == Init0(Platforms, Disks(Corpus, MaxFiles), {"main", "import"})

InitRuns == Init0(RunPlatforms, Disks(RunCorpus, MaxRunFiles), {"main"})

\* ingest_file(root, path), up to the call Visitor().visit(tree)
ingest_file(f) ==
  IF ~f.readable
  THEN \* open/read raised: return
       /\ walked' = walked \cup {f}
       /\ log' = log \cup {Entry(f, "read_error", <<>>)}
       /\ UNCHANGED <<run, entry, sep, root, disk, pc, cur, file_rel, mod_id,
                      name_index, stack, stdout, start>>
  ELSE IF RaisesSyntaxError(f.src)
  THEN \* ast.parse raised SyntaxError: return
       /\ walked' = walked \cup {f}
       /\ log' = log \cup {Entry(f, "syntax_error", <<>>)}
       /\ UNCHANGED <<run, entry, sep, root, disk, pc, cur, file_rel, mod_id,
                      name_index, stack, stdout, start>>
  ELSE LET rel == Concat(norm_path(os_path_relpath(path_of(f), Join(root, sep)))) IN
       /\ file_rel' = rel
       /\ mod_id' = module_id(rel)
       /\ stdout' = Append(stdout, symbol_record(mod_sym(rel)))
       /\ start' = Len(stdout)
       /\ name_index' = EmptyDict
       /\ stack' = <<Call(ast_parse(f.src), ingest_file_depth)>>
       /\ cur' = f
       /\ pc' = "visit"
       /\ UNCHANGED <<run, entry, sep, root, disk, walked, log>>

\* ingest_dir: the next file os.walk yields
ingest_dir ==
  /\ pc = "walk"
  /\ entry = "main"
  /\ \E f \in disk \ walked : Walkable(f) /\ ingest_file(f)

\* a caller that imported the module calls ingest_file on a file below root
call_ingest_file ==
  /\ pc = "walk"
  /\ entry = "import"
  /\ \E f \in disk \ walked : ingest_file(f)

\* NodeVisitor.visit(node) dispatches to visit_<type>, else to generic_visit
Visiting(type) == pc = "visit" /\ stack # <<>> /\ Head(stack).node.type = type

\* One visit(node) call made from a frame at depth d: visit runs at d + 1 and
\* the visitor method at d + 2.  The method writes `out` (when it emits at all)
\* and leaves `index`; with recurse it then calls generic_visit(node) at d + 3.
\* A call past the recursion limit raises RecursionError, which nothing
\* catches: the records written so far stay on stdout and the process dies.
Visit(out, index, recurse) ==
  LET node == Head(stack).node
      d == Head(stack).depth
      emits == out # <<>>
      emitted == IF emits /\ Fits(d + 2 + EmitFrames) THEN out ELSE <<>>
      ok == /\ Fits(d + 2)
            /\ emits => Fits(d + 2 + EmitFrames)
            /\ recurse => Fits(d + 2 + GenericFrames)
  IN /\ stdout' = stdout \o emitted
     /\ IF ok
        THEN /\ name_index' = index
             /\ stack' = (IF recurse THEN Calls(iter_child_nodes(node), d + 3) ELSE <<>>)
                           \o Tail(stack)
             /\ UNCHANGED <<pc, log>>
        ELSE /\ pc' = "crashed"
             /\ log' = log \cup {Entry(cur, "crashed", pass \o emitted)}
             /\ UNCHANGED <<name_index, stack>>
     /\ UNCHANGED <<run, entry, sep, root, disk, walked, cur, file_rel, mod_id, start>>

visit_FunctionDef ==
  /\ Visiting("FunctionDef")
  /\ LET node == Head(stack).node
         sym == function_sym(node)
     IN Visit(<<symbol_record(sym), edge_record(mod_id, "defines", sym.id)>>,
              setdefault_append(name_index, node.attrs.name, sym),
              TRUE)

\* the method loop emitting each member_of edge ahead of its method symbol
RECURSIVE method_records_edge_first(_, _)
method_records_edge_first(body, klass) ==
  IF body = <<>> THEN <<>>
  ELSE LET b == Head(body) IN
       (IF b.type = "FunctionDef"
        THEN LET msym == method_sym(b, klass) IN
             <<edge_record(klass.id, "member_of", msym.id), symbol_record(msym)>>
        ELSE <<>>) \o method_records_edge_first(Tail(body), klass)

\* the records and index entries of the method loop (lines 80-90) over body
RECURSIVE method_records(_, _)
method_records(body, klass) ==
  IF body = <<>> THEN <<>>
  ELSE LET b == Head(body) IN
       (IF b.type = "FunctionDef"
        THEN LET msym == method_sym(b, klass) IN
             <<symbol_record(msym), edge_record(klass.id, "member_of", msym.id)>>
        ELSE <<>>) \o method_records(Tail(body), klass)

RECURSIVE method_index(_, _, _)
method_index(index, body, klass) ==
  IF body = <<>> THEN index
  ELSE LET b == Head(body) IN
       method_index(IF b.type = "FunctionDef"
                    THEN setdefault_append(index, b.attrs.name, method_sym(b, klass))
                    ELSE index,
                    Tail(body), klass)

visit_ClassDef ==
  /\ Visiting("ClassDef")
  /\ LET node == Head(stack).node
         klass == class_sym(node)
     IN Visit(<<symbol_record(klass), edge_record(mod_id, "defines", klass.id)>>
                \o method_records(Field(node, "body"), klass),
              method_index(name_index, Field(node, "body"), klass),
              TRUE)

visit_Assign ==
  /\ Visiting("Assign")
  /\ LET targets == Field(Head(stack).node, "targets") IN
     IF targets # <<>> /\ targets[1].type = "Name"
     THEN LET sym == variable_sym(targets[1]) IN
          Visit(<<symbol_record(sym), edge_record(mod_id, "defines", sym.id)>>,
                setdefault_append(name_index, targets[1].attrs.id, sym),
                TRUE)
     ELSE Visit(<<>>, name_index, TRUE)

RECURSIVE import_records(_)
import_records(names) ==
  IF names = <<>> THEN <<>>
  ELSE LET pm == pseudo_module(Head(names).attrs.name) IN
       <<symbol_record(pm), edge_record(mod_id, "import", pm.id)>> \o import_records(Tail(names))

visit_Import ==
  /\ Visiting("Import")
  /\ Visit(import_records(Field(Head(stack).node, "names")), name_index, FALSE)

visit_ImportFrom ==
  /\ Visiting("ImportFrom")
  /\ LET pm == pseudo_module(import_from_spec(Head(stack).node)) IN
     Visit(<<symbol_record(pm), edge_record(mod_id, "import", pm.id)>>, name_index, FALSE)

\* lines 129-133
callee_name(node) ==
  LET func == Field(node, "func")[1] IN
  CASE func.type = "Name" -> func.attrs.id
    [] func.type = "Attribute" -> func.attrs.attr
    [] OTHER -> None

visit_Call ==
  /\ Visiting("Call")
  /\ LET name == callee_name(Head(stack).node) IN
     Visit(IF name # None /\ name # "" THEN <<call_record(name)>> ELSE <<>>, name_index, TRUE)

\* NodeVisitor.generic_visit, the fallback of visit() for every other node
\* type: generic_visit runs at d + 2, its visit() calls are made from there
generic_visit ==
  /\ pc = "visit" /\ stack # <<>> /\ Head(stack).node.type \notin Handled
  /\ LET node == Head(stack).node
         d == Head(stack).depth
     IN IF Fits(d + 1 + GenericFrames)
        THEN /\ stack' = Calls(iter_child_nodes(node), d + 2) \o Tail(stack)
             /\ UNCHANGED <<pc, log>>
        ELSE /\ pc' = "crashed"
             /\ log' = log \cup {Entry(cur, "crashed", pass)}
             /\ UNCHANGED stack
  /\ UNCHANGED <<run, entry, sep, root, disk, walked, cur, file_rel, mod_id, name_index, stdout, start>>

\* line 141, after Visitor().visit(tree) has returned
emit_name_index ==
  /\ pc = "visit" /\ stack = <<>>
  /\ stdout' = Append(stdout, name_index_record)
  /\ walked' = walked \cup {cur}
  /\ log' = log \cup {Entry(cur, "ok", Append(pass, name_index_record))}
  /\ pc' = "walk"
  /\ UNCHANGED <<run, entry, sep, root, disk, cur, file_rel, mod_id, name_index, stack, start>>

\* ingest_dir (or the importing caller) has no file left: the run ends
finish ==
  /\ pc = "walk"
  /\ \A f \in disk \ walked : entry = "main" /\ ~Walkable(f)
  /\ pc' = "exit"
  /\ UNCHANGED <<run, entry, sep, root, disk, walked, cur, file_rel, mod_id, name_index, stack, stdout, start, log>>

\* main: a further, independent process invocation on another directory
main ==
  /\ pc \in {"exit", "crashed"}
  /\ run < MaxRuns
  /\ run' = run + 1
  /\ \E p \in RunPlatforms : sep' = p.sep /\ root' = p.root
  /\ disk' \in Disks(RunCorpus, MaxRunFiles)
  /\ walked' = {}
  /\ pc' = "walk"
  /\ cur' = File(<<>>, <<>>, FALSE, "")
  /\ file_rel' = ""
  /\ mod_id' = ""
  /\ name_index' = EmptyDict
  /\ stack' = <<>>
  /\ stdout' = <<>>
  /\ start' = 0
  /\ UNCHANGED <<entry, log>>

Next ==
  \/ ingest_dir
  \/ call_ingest_file
  \/ visit_FunctionDef
  \/ visit_ClassDef
  \/ visit_Assign
  \/ visit_Import
  \/ visit_ImportFrom
  \/ visit_Call
  \/ generic_visit
  \/ emit_name_index
  \/ finish

Spec == Init /\ [][Next]_vars

NextRuns ==
  \/ ingest_dir
  \/ visit_FunctionDef
  \/ visit_ClassDef
  \/ visit_Assign
  \/ visit_Import
  \/ visit_ImportFrom
  \/ visit_Call
  \/ generic_visit
  \/ emit_name_index
  \/ finish
  \/ main

SpecRuns == InitRuns /\ [][NextRuns]_vars

----------------------------------------------------------------------------
\* Vocabulary of the properties

\* the root-relative path of f, separator-normalized
RelPath(f) == Concat(Join(f.dir \o <<Concat(f.fn)>>, "/"))

SymIdx(out) == {i \in DOMAIN out : out[i].type = "symbol"}
EdgeIdx(out) == {i \in DOMAIN out : out[i].type = "edge"}
KindIdx(out, kind, name) ==
  {i \in SymIdx(out) : out[i].symbol.kind = kind /\ out[i].symbol.name = name}

\* the passes that returned after emitting their name_index
OkPasses == {e \in log : e.status = "ok"}

\* the passes over the files that were read and parsed
ParsedPasses == {e \in log : e.status \in {"ok", "crashed"}}

RECURSIVE NodesOf(_)
RECURSIVE NodesOfAll(_)
NodesOf(node) == {node} \cup NodesOfAll(iter_child_nodes(node))
NodesOfAll(nodes) == IF nodes = <<>> THEN {} ELSE NodesOf(Head(nodes)) \cup NodesOfAll(Tail(nodes))

\* C1: in every prefix of a pass, each edge's src and dst are ids of symbol
\* records emitted earlier in the pass, and each call's modId is the id of a
\* module symbol emitted earlier in the pass.
C1_ReferentialIntegrity ==
  \A i \in DOMAIN pass :
    /\ pass[i].type = "edge" =>
         /\ \E j \in SymIdx(pass) : j < i /\ pass[j].symbol.id = pass[i].edge.src
         /\ \E j \in SymIdx(pass) : j < i /\ pass[j].symbol.id = pass[i].edge.dst
    /\ pass[i].type = "call" =>
         \E j \in SymIdx(pass) :
           j < i /\ pass[j].symbol.kind = "module" /\ pass[j].symbol.id = pass[i].modId

C1_Witness ==
  /\ pc = "walk"
  /\ \E i \in DOMAIN pass : pass[i].type = "call"
  /\ \E i \in DOMAIN pass : pass[i].type = "edge" /\ pass[i].edge.type = "member_of"
  /\ \E i \in DOMAIN pass : pass[i].type = "edge" /\ pass[i].edge.type = "import"

\* the records of stdout that belong to the file at relative path rel: its
\* module symbol, its declarations, its calls and its name_index
RecordsOf(rel) ==
  {i \in DOMAIN stdout :
     CASE stdout[i].type = "symbol" ->
            /\ stdout[i].symbol.file = rel
            /\ stdout[i].symbol.kind = "module" => stdout[i].symbol.id = module_id(rel)
       [] stdout[i].type = "edge" -> FALSE
       [] OTHER -> stdout[i].file = rel}

\* the ingest_file calls that have ended, by returning or by raising
Ended == {e \in log : e.run = run}

\* C2: a file that cannot be read or does not parse contributes no record, and
\* no file contributes only part of its facts: once ingest_file has ended, the
\* file has either no record or its whole pass, closed by its name_index.
C2_FailClosed ==
  /\ \A f \in walked :
       (~f.readable \/ RaisesSyntaxError(f.src)) => RecordsOf(RelPath(f)) = {}
  /\ \A e \in Ended :
       e.out = <<>> \/ e.out[Len(e.out)].type = "name_index"

E2E == File(<<>>, <<"a", ".src">>, TRUE, "e2e")

\* C3: the pass over a.src (function f, class C with method m) emits exactly
\* the symbols module a.src, function f, class C, method m (parentId = C), exactly
\* the edges defines module->f, defines module->C, member_of C->m, and a final
\* name_index for a.src with entries for f and m and none for C.
C3_EndToEnd ==
  \A e \in OkPasses :
    e.file = E2E =>
      LET out == e.out
          last == out[Len(out)]
          id(kind, name) == out[CHOOSE i \in KindIdx(out, kind, name) : TRUE].symbol.id
      IN /\ Cardinality(SymIdx(out)) = 4
         /\ Cardinality(KindIdx(out, "module", "a.src")) = 1
         /\ Cardinality(KindIdx(out, "function", "f")) = 1
         /\ Cardinality(KindIdx(out, "class", "C")) = 1
         /\ Cardinality(KindIdx(out, "method", "m")) = 1
         /\ \A i \in KindIdx(out, "module", "a.src") : out[i].symbol.file = "a.src"
         /\ \A i \in KindIdx(out, "method", "m") : out[i].symbol.parentId = id("class", "C")
         /\ Cardinality(EdgeIdx(out)) = 3
         /\ {out[i].edge : i \in EdgeIdx(out)} =
              { [src |-> id("module", "a.src"), type |-> "defines", dst |-> id("function", "f")],
                [src |-> id("module", "a.src"), type |-> "defines", dst |-> id("class", "C")],
                [src |-> id("class", "C"), type |-> "member_of", dst |-> id("method", "m")] }
         /\ last.type = "name_index"
         /\ last.file = "a.src"
         /\ "f" \in DOMAIN last.index
         /\ "m" \in DOMAIN last.index
         /\ "C" \notin DOMAIN last.index

Range(s) == {s[i] : i \in DOMAIN s}

TopLevelDecls(tree) ==
  {n \in Range(Field(tree, "body")) : n.type \in {"FunctionDef", "AsyncFunctionDef", "ClassDef"}}

DeclKind(n) == IF n.type = "ClassDef" THEN "class" ELSE "function"

\* the symbol records of kind `kind` for the declaration at node n
DeclSyms(out, n, kind) ==
  {i \in KindIdx(out, kind, n.attrs.name) :
     /\ out[i].symbol.range.startLine = n.pos.lineno
     /\ out[i].symbol.range.startCol = n.pos.col_offset + 1}

\* C4: every top-level def, async def and class of a parsed file yields exactly
\* one symbol record and exactly one defines edge from the file's module symbol
\* to that symbol.
C4_TopLevelCompleteness ==
  \A e \in OkPasses :
    \A n \in TopLevelDecls(ast_parse(e.file.src)) :
      LET out == e.out
          syms == DeclSyms(out, n, DeclKind(n))
      IN /\ Cardinality(syms) = 1
         /\ \A i \in syms :
              Cardinality({k \in EdgeIdx(out) :
                             out[k].edge = [src |-> out[1].symbol.id, type |-> "defines",
                                            dst |-> out[i].symbol.id]}) = 1

Indexed == {"function", "method", "variable"}

\* declaration a does not occur after declaration b in the source
NotAfter(a, b) ==
  \/ a.range.startLine < b.range.startLine
  \/ a.range.startLine = b.range.startLine /\ a.range.startCol <= b.range.startCol

\* C5: in the final name_index record, index[n] holds every function, method
\* and variable symbol of the pass named n, in the order of their declarations
\* in the source.
C5_NameIndexOrder ==
  \A e \in OkPasses :
    LET out == e.out
        index == out[Len(out)].index
        named(n) == {i \in SymIdx(out) : out[i].symbol.kind \in Indexed /\ out[i].symbol.name = n}
    IN /\ \A i \in SymIdx(out) :
            out[i].symbol.kind \in Indexed => out[i].symbol.name \in DOMAIN index
       /\ \A n \in DOMAIN index :
            /\ Len(index[n]) = Cardinality(named(n))
            /\ \A i \in named(n) : \E k \in DOMAIN index[n] : index[n][k] = out[i].symbol
            /\ \A k, l \in DOMAIN index[n] : k < l => NotAfter(index[n][k], index[n][l])

\* C6: every symbol record's id is make_id of the record's own kind, name,
\* file, range.startLine and range.startCol.
C6_IdFormula ==
  \A i \in SymIdx(pass) :
    LET sym == pass[i].symbol IN
    sym.id = make_id(<<S(sym.kind), S(sym.name), S(sym.file),
                       I(sym.range.startLine), I(sym.range.startCol)>>)

\* the specifier of a from-import as written in the source
written_spec(n) ==
  dots(n.attrs.level) \o (IF n.attrs.module = None THEN "" ELSE n.attrs.module)

\* the pseudo-module symbol records of a pass: module symbols after the first record
PseudoIdx(out) == {i \in SymIdx(out) : i > 1 /\ out[i].symbol.kind = "module"}

\* the number of specifiers the import statements of a tree name
ImportCount(tree) ==
  LET ns == NodesOf(tree) IN
  Cardinality({n \in ns : n.type = "ImportFrom"})
    + Cardinality({a \in ns : a.type = "alias" /\ \E n \in ns : n.type = "Import" /\ a \in Range(Field(n, "names"))})

\* C9: every from-import with level L and module M yields one pseudo-module
\* symbol named L dots followed by M, and one import edge to it from the file's
\* module symbol.
C9_FromImportSpecifier ==
  \A e \in OkPasses :
    LET out == e.out
        tree == ast_parse(e.file.src)
    IN /\ Cardinality(PseudoIdx(out)) = ImportCount(tree)
       /\ \A n \in NodesOf(tree) :
            n.type = "ImportFrom" =>
              \E i \in PseudoIdx(out) :
                /\ out[i].symbol.name = written_spec(n)
                /\ i < Len(out)
                /\ out[i + 1].type = "edge"
                /\ out[i + 1].edge = [src |-> out[1].symbol.id, type |-> "import",
                                      dst |-> out[i].symbol.id]

Declared == {"function", "class", "method", "variable"}

\* C10: two function, class, method or variable symbols of one pass that
\* differ in kind, name, start line or start column have different ids.
C10_IdUniqueness ==
  \A i, j \in SymIdx(pass) :
    LET a == pass[i].symbol
        b == pass[j].symbol
    IN (/\ a.kind \in Declared
        /\ b.kind \in Declared
        /\ \/ a.kind # b.kind
           \/ a.name # b.name
           \/ a.range.startLine # b.range.startLine
           \/ a.range.startCol # b.range.startCol)
       => a.id # b.id

\* the ids of the symbol records of a pass, in emission order
SymbolIds(out) ==
  LET syms == SelectSeq(out, LAMBDA r : r.type = "symbol") IN
  [i \in DOMAIN syms |-> syms[i].symbol.id]

\* C7: two ingest_file passes, in the same or in independent runs and whatever
\* was ingested before them, over the same content at the same relative path
\* emit the same symbol ids; two pseudo-module symbols for the same specifier
\* have the same id, whichever files and runs emitted them.
C7_Determinism ==
  \A e1, e2 \in OkPasses :
    /\ e1.file = e2.file => SymbolIds(e1.out) = SymbolIds(e2.out)
    /\ \A i \in PseudoIdx(e1.out), j \in PseudoIdx(e2.out) :
         e1.out[i].symbol.name = e2.out[j].symbol.name
           => e1.out[i].symbol.id = e2.out[j].symbol.id

C7_Witness ==
  /\ \E e1, e2 \in OkPasses :
       /\ e1.run # e2.run
       /\ e1.file = e2.file
       /\ e1.file.dir # <<>>
       /\ e1.root # e2.root
       /\ e1.sep # e2.sep
       /\ e1.prior # e2.prior
  /\ \E e1, e2 \in OkPasses :
       /\ e1.run # e2.run
       /\ e1.file # e2.file
       /\ \E i \in PseudoIdx(e1.out), j \in PseudoIdx(e2.out) :
            e1.out[i].symbol.name = e2.out[j].symbol.name

\* first record the module symbol named rel, last record the only name_index
Framed(out, rel) ==
  /\ Len(out) >= 2
  /\ out[1].type = "symbol"
  /\ out[1].symbol.kind = "module"
  /\ out[1].symbol.name = rel
  /\ out[Len(out)].type = "name_index"
  /\ Cardinality({i \in DOMAIN out : out[i].type = "name_index"}) = 1

\* C8: a parsed file's pass emits exactly one symbol record with
\* kind=module and name equal to the file's relative path, as its first record,
\* and exactly one name_index record, as its last record.
C8_Framing ==
  \A e \in ParsedPasses :
    /\ Framed(e.out, RelPath(e.file))
    /\ Cardinality(KindIdx(e.out, "module", RelPath(e.file))) = 1

====
